---------------------------- MODULE Spec2Model ----------------------------
(***************************************************************************)
(* Model of the Firebase AI Logic Genkit plugin (src/src/index.ts): the    *)
(* generation handler created by createFirebaseAILogicModel, the request   *)
(* translator toFirebaseAIRequest, the response normalizer                 *)
(* toGenkitResponse, the error wrapping around the backend call, the       *)
(* config schema, and the plugin's initializer and resolver.               *)
(*                                                                         *)
(* Spec runs the handler of an initialized plugin over requests and        *)
(* backend outcomes; SpecConfig varies the plugin defaults and the         *)
(* per-call config; SpecPlugin runs the initializer, the resolver and      *)
(* calls on the registered handles; SpecSchema applies the config schema;  *)
(* SpecTranslate sends one user message over every short sequence of       *)
(* parts; SpecConcurrent interleaves several calls of the handler.         *)
(*                                                                         *)
(* Conventions.  A JavaScript string is a sequence of non-empty tokens     *)
(* (the empty string is << >>); concatenation is \o and "contains" is      *)
(* contiguous-subsequence.  An optional value (possibly undefined) is a    *)
(* sequence of length 0 or 1.  JavaScript objects are records whose        *)
(* DOMAIN is the set of keys that are present.                             *)
(***************************************************************************)
EXTENDS Integers, Sequences, FiniteSets, TLC

VARIABLES
    options, plugin, initError, registry, defineModelCalls, clients, resolves,
    lastResolve,
    pc, handleName, request, modelHandles, generateContentCalls, backendOutcome,
    result,
    parsed,
    calls

pluginVars ==
    <<options, plugin, initError, registry, defineModelCalls, clients, resolves,
      lastResolve>>

handlerVars ==
    <<pc, handleName, request, modelHandles, generateContentCalls, backendOutcome,
      result>>

vars == <<pluginVars, handlerVars, parsed, calls>>

---------------------------------------------------------------------------
(* Bounds *)

MaxMessages == 3

---------------------------------------------------------------------------
(* Optional values and strings *)

None == << >>

Some(x) == <<x>>

EmptyString == << >>

\* JavaScript truthiness of a string: only '' is falsy.
Truthy(s) == s # EmptyString

\* JavaScript truthiness of a possibly-undefined string.
TruthyOpt(o) == o # None /\ Truthy(o[1])

\* a || b on possibly-undefined strings, the result again possibly undefined.
OrOpt(a, b) == IF TruthyOpt(a) THEN a ELSE b

StartsWith(s, prefix) ==
    /\ Len(s) >= Len(prefix)
    /\ SubSeq(s, 1, Len(prefix)) = prefix

\* m occurs in s as a contiguous run of tokens.
Contains(s, m) ==
    \E i \in 1..(Len(s) + 1) :
        /\ i + Len(m) - 1 <= Len(s)
        /\ SubSeq(s, i, i + Len(m) - 1) = m

RECURSIVE SplitFrom(_, _, _, _)
SplitFrom(s, sep, i, cur) ==
    IF i > Len(s) THEN <<cur>>
    ELSE IF s[i] = sep THEN <<cur>> \o SplitFrom(s, sep, i + 1, << >>)
    ELSE SplitFrom(s, sep, i + 1, Append(cur, s[i]))

\* String.prototype.split on a one-token separator.
Split(s, sep) == SplitFrom(s, sep, 1, << >>)

---------------------------------------------------------------------------
(* The request domain *)

SysTerse == <<"Be terse.">>
SysPirate == <<"Talk like a pirate.">>
CfgSys == <<"Answer in French.">>
TextTwoPlusTwo == <<"2+2?">>
TextDescribe == <<"Describe this.">>
TextHello == <<"Hello">>
TextHi == <<"Hi there!">>
PromptText == <<"Tell me a joke">>
InputText == <<"Summarize">>

DataUrl == <<"data", ":", "image/png", ";", "base64", ",", "iVBORw0K">>
GsUrl == <<"gs://", "bucket/cat.png">>
HttpsUrl == <<"https://", "example.com/cat.png">>

TextPart(t) == [text |-> t]

MediaPart(url, contentType) == [media |-> [url |-> url, contentType |-> contentType]]

ToolRequestPart == [toolRequest |-> [name |-> "getWeather", input |-> "city=Paris"]]

ToolResponsePart == [toolResponse |-> [name |-> "getWeather", output |-> "sunny"]]

Msg(role, content) == [role |-> role, content |-> content]

SysTerseMsg == Msg("system", <<TextPart(SysTerse)>>)
SysPirateMsg == Msg("system", <<TextPart(SysPirate)>>)
SysEmptyMsg == Msg("system", << >>)

UserTextMsg == Msg("user", <<TextPart(TextTwoPlusTwo)>>)
UserRichMsg ==
    Msg("user", <<TextPart(TextDescribe), MediaPart(DataUrl, <<"image/png">>),
                  MediaPart(GsUrl, <<"image/png">>), ToolRequestPart, ToolResponsePart>>)
\* A user message none of whose parts is translated.
UserSkippedMsg ==
    Msg("user", <<TextPart(EmptyString), MediaPart(HttpsUrl, <<"image/png">>)>>)

ModelTextMsg == Msg("model", <<TextPart(TextHi)>>)

Messages == { SysTerseMsg, SysPirateMsg, UserTextMsg, UserRichMsg, ModelTextMsg }

\* Conversations with a system message without content or a user message
\* without translatable parts.
EdgeConversations ==
    { <<SysEmptyMsg>>,
      <<SysEmptyMsg, UserTextMsg>>,
      <<SysTerseMsg, SysEmptyMsg, UserTextMsg>>,
      <<UserSkippedMsg>>,
      <<SysTerseMsg, UserSkippedMsg>>,
      <<UserTextMsg, ModelTextMsg, UserSkippedMsg>>,
      <<UserSkippedMsg, ModelTextMsg, UserRichMsg>> }

Conversations ==
    UNION { [1..n -> Messages] : n \in 0..MaxMessages } \cup EdgeConversations

\* config.systemInstruction: absent, the empty string, or a string.
ConfigSystemInstructions == { None, Some(EmptyString), Some(CfgSys) }

\* request.prompt / request.input of ExtendedGenerateRequest.
Fallbacks ==
    { [prompt |-> None, input |-> None],
      [prompt |-> Some(PromptText), input |-> None],
      [prompt |-> None, input |-> Some(InputText)] }

\* A number is counted in ten-thousandths: Num(2, 1) is 2.0001.
Num(units, tenThousandths) == units * 10000 + tenThousandths

IsInteger(n) == n % 10000 = 0

ConfigFields ==
    { "temperature", "topK", "topP", "maxOutputTokens", "stopSequences",
      "candidateCount", "responseMimeType", "responseSchema" }

\* request.config without systemInstruction: every field absent.
NoConfig ==
    [temperature |-> None, topK |-> None, topP |-> None, maxOutputTokens |-> None,
     stopSequences |-> None, candidateCount |-> None, responseMimeType |-> None,
     responseSchema |-> None, safetySettings |-> None, tools |-> None, toolConfig |-> None]

\* A per-call config with every field present; temperature is 0.
FullConfig ==
    [temperature |-> Some(Num(0, 0)), topK |-> Some(Num(40, 0)), topP |-> Some(Num(0, 9500)),
     maxOutputTokens |-> Some(Num(1, 0)), stopSequences |-> Some(<<"END">>),
     candidateCount |-> Some(Num(2, 0)), responseMimeType |-> Some(<<"application/json">>),
     responseSchema |-> Some("object-schema"),
     safetySettings |-> Some(<<"HARM_CATEGORY_HARASSMENT:BLOCK_NONE">>),
     tools |-> Some(<<"getWeather-declaration">>), toolConfig |-> Some("AUTO")]

\* The per-call configs: nothing, everything, or exactly one field.
RequestConfigs ==
    { NoConfig, FullConfig }
    \cup { [NoConfig EXCEPT ![f] = FullConfig[f]] : f \in DOMAIN NoConfig }

Request(messages, systemInstruction, fallback, config) ==
    [messages |-> messages, systemInstruction |-> systemInstruction,
     prompt |-> fallback.prompt, input |-> fallback.input, config |-> config]

Requests ==
    { Request(m, s, f, NoConfig) :
        m \in { None } \cup { Some(c) : c \in Conversations },
        s \in ConfigSystemInstructions,
        f \in Fallbacks }

\* Requests that vary the per-call config over one conversation.
ConfigRequests ==
    { Request(Some(<<UserTextMsg>>), None, [prompt |-> None, input |-> None], c) :
        c \in RequestConfigs }
    \cup { Request(Some(<<SysTerseMsg, UserTextMsg>>), None,
                   [prompt |-> None, input |-> None], FullConfig) }

---------------------------------------------------------------------------
(* Plugin options *)

\* options.defaultGenerationConfig with every field absent.
NoDefaults ==
    [temperature |-> None, topK |-> None, topP |-> None, maxOutputTokens |-> None,
     stopSequences |-> None, candidateCount |-> None, responseMimeType |-> None,
     responseSchema |-> None]

FullDefaults ==
    [temperature |-> Some(Num(0, 7000)), topK |-> Some(Num(20, 0)), topP |-> Some(Num(1, 0)),
     maxOutputTokens |-> Some(Num(1000, 0)), stopSequences |-> Some(<<"STOP">>),
     candidateCount |-> Some(Num(1, 0)), responseMimeType |-> Some(<<"text/plain">>),
     responseSchema |-> Some("default-schema")]

\* Defaults outside the ranges of the config schema.
OutOfRangeDefaults ==
    { [NoDefaults EXCEPT !.temperature = Some(Num(5, 0))],
      [NoDefaults EXCEPT !.topP = Some(Num(1, 5000))],
      [NoDefaults EXCEPT !.candidateCount = Some(Num(9, 0)), !.topK = Some(Num(-1, 0))] }

DefaultGenerationConfigs ==
    { NoDefaults, FullDefaults }
    \cup { [NoDefaults EXCEPT ![f] = FullDefaults[f]] : f \in ConfigFields }
    \cup OutOfRangeDefaults

\* firebase: which of firebaseApp / firebaseConfig was given ("app", "config"
\* or "none"); projectId: firebaseConfig.projectId; backend: options.backend.
Options(defaults, safety) ==
    [firebase |-> "app", projectId |-> None, backend |-> None,
     defaultGenerationConfig |-> defaults, defaultSafetySettings |-> safety]

PlainOptions == Options(NoDefaults, None)

\* Options that vary the defaults merged into every call.
ConfigOptions ==
    { Options(d, None) : d \in DefaultGenerationConfigs }
    \cup { Options(d, Some(<<"HARM_CATEGORY_HATE_SPEECH:BLOCK_ONLY_HIGH">>)) :
             d \in { NoDefaults, FullDefaults } }

\* Options that vary how the Firebase app and the backend are obtained.
PluginOptions ==
    { PlainOptions,
      [PlainOptions EXCEPT !.backend = Some("vertexAI")],
      [PlainOptions EXCEPT !.backend = Some("bedrock")],
      [PlainOptions EXCEPT !.firebase = "config", !.projectId = Some("demo-project")],
      [PlainOptions EXCEPT !.firebase = "config", !.projectId = Some("test-project")],
      [PlainOptions EXCEPT !.firebase = "none"] }

---------------------------------------------------------------------------
(* toFirebaseAIRequest *)

\* part.text is present and truthy.
\* Variant: a text part counts whatever its text.
HasText_Present(part) == "text" \in DOMAIN part

HasText(part) == "text" \in DOMAIN part /\ Truthy(part.text)

\* const [mimeType, data] = url.split(','); mimeType.split(':')[1].split(';')[0]
DataUriMimeType(url) == Split(Split(Split(url, ",")[1], ":")[2], ";")[1]

DataUriData(url) ==
    LET pieces == Split(url, ",")
    IN  IF Len(pieces) >= 2 THEN Some(pieces[2]) ELSE None

\* Variant: a gs:// URL is sent inline, like a data URI.
TranslatePart_MediaInline(part) ==
    IF HasText(part) THEN
        << [text |-> part.text] >>
    ELSE IF "media" \in DOMAIN part THEN
        IF StartsWith(part.media.url, <<"data", ":">>) THEN
            << [inlineData |-> [mimeType |-> DataUriMimeType(part.media.url),
                                data |-> DataUriData(part.media.url)]] >>
        ELSE IF StartsWith(part.media.url, <<"gs://">>) THEN
            << [inlineData |-> [mimeType |-> part.media.contentType,
                                data |-> Some(part.media.url)]] >>
        ELSE << >>
    ELSE IF "toolRequest" \in DOMAIN part THEN
        << [functionCall |-> [name |-> part.toolRequest.name,
                              args |-> part.toolRequest.input]] >>
    ELSE IF "toolResponse" \in DOMAIN part THEN
        << [functionResponse |-> [name |-> part.toolResponse.name,
                                  response |-> part.toolResponse.output]] >>
    ELSE << >>

\* The backend parts one Genkit part contributes: none or one.
TranslatePart(part) ==
    IF HasText(part) THEN
        << [text |-> part.text] >>
    ELSE IF "media" \in DOMAIN part THEN
        IF StartsWith(part.media.url, <<"data", ":">>) THEN
            << [inlineData |-> [mimeType |-> DataUriMimeType(part.media.url),
                                data |-> DataUriData(part.media.url)]] >>
        ELSE IF StartsWith(part.media.url, <<"gs://">>) THEN
            << [fileData |-> [mimeType |-> part.media.contentType,
                              fileUri |-> part.media.url]] >>
        ELSE << >>
    ELSE IF "toolRequest" \in DOMAIN part THEN
        << [functionCall |-> [name |-> part.toolRequest.name,
                              args |-> part.toolRequest.input]] >>
    ELSE IF "toolResponse" \in DOMAIN part THEN
        << [functionResponse |-> [name |-> part.toolResponse.name,
                                  response |-> part.toolResponse.output]] >>
    ELSE << >>

RECURSIVE TranslateParts(_)
TranslateParts(content) ==
    IF content = << >> THEN << >>
    ELSE TranslatePart(Head(content)) \o TranslateParts(Tail(content))

\* message.content[0]?.text || ''
SystemText(message) ==
    IF Len(message.content) >= 1 /\ HasText(message.content[1])
    THEN message.content[1].text
    ELSE EmptyString

\* The loop over request.messages, carrying (contents, systemInstruction).
RECURSIVE TranslateMessages(_, _)
TranslateMessages(messages, acc) ==
    IF messages = << >> THEN acc
    ELSE LET message == Head(messages)
         IN  IF message.role = "system"
             THEN TranslateMessages(Tail(messages),
                      [acc EXCEPT !.systemInstruction = Some(SystemText(message))])
             ELSE TranslateMessages(Tail(messages),
                      [acc EXCEPT !.contents = @ \o TranslateParts(message.content)])

toFirebaseAIRequest(req) ==
    LET start == [contents |-> << >>, systemInstruction |-> None]
        looped == IF req.messages # None
                  THEN TranslateMessages(req.messages[1], start)
                  ELSE start
    IN  IF looped.contents = << >> /\ TruthyOpt(req.prompt)
        THEN [looped EXCEPT !.contents = << [text |-> req.prompt[1]] >>]
        ELSE looped

---------------------------------------------------------------------------
(* The generation handler, up to the backend await *)

\* value !== undefined ? value : fallback
OrDefault(value, fallback) == IF value # None THEN value ELSE fallback

\* generationConfig: four fields fall back to the plugin defaults, the other
\* four are copied only when the per-call value is truthy.
GenerationConfig(req) ==
    [temperature |->
        OrDefault(req.config.temperature, options.defaultGenerationConfig.temperature),
     topK |-> OrDefault(req.config.topK, options.defaultGenerationConfig.topK),
     topP |-> OrDefault(req.config.topP, options.defaultGenerationConfig.topP),
     maxOutputTokens |->
        OrDefault(req.config.maxOutputTokens, options.defaultGenerationConfig.maxOutputTokens),
     stopSequences |-> req.config.stopSequences,
     candidateCount |->
        IF req.config.candidateCount # None /\ req.config.candidateCount[1] # 0
        THEN req.config.candidateCount ELSE None,
     responseMimeType |->
        IF TruthyOpt(req.config.responseMimeType) THEN req.config.responseMimeType ELSE None,
     responseSchema |-> req.config.responseSchema]

\* if (request.config?.systemInstruction) modelConfig.systemInstruction = ...
ConfigSystemInstruction(req) ==
    IF TruthyOpt(req.systemInstruction) THEN req.systemInstruction ELSE None

\* modelConfig as built before the first getGenerativeModel call.
ModelConfig(modelName, req) ==
    [model |-> modelName,
     generationConfig |->
        IF \A f \in ConfigFields : GenerationConfig(req)[f] = None
        THEN None ELSE Some(GenerationConfig(req)),
     systemInstruction |-> ConfigSystemInstruction(req),
     safetySettings |-> OrDefault(req.config.safetySettings, options.defaultSafetySettings),
     tools |-> req.config.tools,
     toolConfig |-> req.config.toolConfig]

\* contents after the request.input || request.prompt || '' fallback.
FallbackContents(req, contents) ==
    LET input == OrOpt(OrOpt(req.input, req.prompt), Some(EmptyString))
    IN  IF contents = << >> /\ TruthyOpt(input)
        THEN << [role |-> "user", parts |-> << [text |-> input[1]] >>] >>
        ELSE contents

\* The argument of generateContent(contents): always the contents array.
GenerateContentArg(contents) == [type |-> "array", items |-> contents]

\* Variant: the message-level instruction is applied even over a config-level one.
UsesUpdatedModel_IgnoringConfig(req) ==
    TruthyOpt(toFirebaseAIRequest(req).systemInstruction)

\* The message-level system instruction is applied on a second model handle.
UsesUpdatedModel(req) ==
    /\ TruthyOpt(toFirebaseAIRequest(req).systemInstruction)
    /\ ConfigSystemInstruction(req) = None

---------------------------------------------------------------------------
(* Errors *)

\* GenkitError: an Error whose message is `${source}: ${status}: ${message}`.
GenkitError(status, message) ==
    [kind |-> "Error",
     source |-> "firebase-ai-logic-plugin",
     status |-> status,
     message |-> Some(<<"firebase-ai-logic-plugin", ": ", status, ": ">> \o message),
     code |-> None]

\* Values a rejected generateContent can carry.
ErrorInstance(message, code) == [kind |-> "Error", message |-> Some(message), code |-> code]

ThrownString(message) == [kind |-> "string", message |-> Some(message), code |-> None]

ThrownObject(message, code) == [kind |-> "object", message |-> message, code |-> code]

ThrownNull == [kind |-> "null", message |-> None, code |-> None]

\* Variant: only Error instances and strings keep their message.
getErrorMessage_DroppingObjectMessage(error) ==
    IF error.kind = "Error" THEN error.message[1]
    ELSE IF error.kind = "string" THEN error.message[1]
    ELSE <<"Unknown error occurred">>

getErrorMessage(error) ==
    IF error.kind = "Error" THEN error.message[1]
    ELSE IF error.kind = "string" THEN error.message[1]
    ELSE IF error.kind = "object" /\ error.message # None THEN error.message[1]
    ELSE <<"Unknown error occurred">>

GenerationFailed == <<"Firebase AI Logic generation failed: ">>

\* catch around updatedModel.generateContent (message-level system instruction).
UpdatedModelCatch(error) ==
    GenkitError("INTERNAL", GenerationFailed \o getErrorMessage(error))

\* catch around model.generateContent: classification by errorObj?.code.
GenerateCatch(error) ==
    LET errorMessage == getErrorMessage(error)
    IN  IF error.code = Some("invalid-argument") THEN
            GenkitError("INVALID_ARGUMENT", <<"Invalid request: ">> \o errorMessage)
        ELSE IF error.code = Some("permission-denied") THEN
            GenkitError("PERMISSION_DENIED", <<"Permission denied: ">> \o errorMessage)
        ELSE IF error.code = Some("quota-exceeded") \/ error.code = Some("resource-exhausted") THEN
            GenkitError("RESOURCE_EXHAUSTED", <<"Quota exceeded: ">> \o errorMessage)
        ELSE
            GenkitError("INTERNAL", GenerationFailed \o errorMessage)

\* The handler's outer catch: everything thrown inside the try is rewrapped.
OuterCatch(error) ==
    GenkitError("INTERNAL", GenerationFailed \o getErrorMessage(error))

ErrorMessages ==
    { <<"Quota", " exceeded for requests per minute">>,
      <<"PERMISSION", " denied">>,
      <<"invalid", " argument: contents">>,
      <<"socket hang up">> }

ErrorCodes ==
    { "invalid-argument", "permission-denied", "quota-exceeded",
      "resource-exhausted", "unavailable" }

OptionalCodes == { None } \cup { Some(c) : c \in ErrorCodes }

BackendErrors ==
    { ErrorInstance(m, c) : m \in ErrorMessages, c \in OptionalCodes }
    \cup { ThrownString(<<"socket hang up">>), ThrownString(EmptyString) }
    \cup { ThrownObject(Some(<<"socket hang up">>), c) : c \in OptionalCodes }
    \cup { ThrownObject(None, None), ThrownObject(None, Some("resource-exhausted")) }
    \cup { ThrownNull }

---------------------------------------------------------------------------
(* Backend raw responses *)

JsNull == [type |-> "null"]

IsObject(v) == v.type = "object"

\* The `text` property of a response: a function or a plain string.
TextReturns(s) == [kind |-> "function", returns |-> s]

TextThrows(error) == [kind |-> "function", throws |-> error]

TextString(s) == [kind |-> "string", value |-> s]

\* The `candidates` property: a real array or an array-like object.
CandidateArray(items) == [isArray |-> TRUE, items |-> items]

CandidateArrayLike(items) == [isArray |-> FALSE, items |-> items]

TextFour == <<"4">>
TextTopLevel == <<"top-level text">>
TextPlain == <<"plain text">>

CandStop ==
    [content |-> [parts |-> << [text |-> TextFour] >>],
     finishReason |-> "STOP",
     safetyRatings |-> "ratings"]

CandMaxTokens ==
    [content |-> [parts |-> << [text |-> TextHello],
                               [functionCall |-> [name |-> "getWeather", args |-> "city=Paris"]],
                               [functionResponse |-> [name |-> "getWeather", response |-> "sunny"]],
                               [text |-> EmptyString] >>],
     finishReason |-> "MAX_TOKENS"]

CandNoContent == [finishReason |-> "SAFETY"]

CandNoFinishReason == [content |-> [parts |-> << [text |-> TextHello] >>]]

CandRecitation == [finishReason |-> "RECITATION"]

CandOther == [finishReason |-> "OTHER"]

\* A finish-reason token outside the five named ones.
CandBlocklist == [finishReason |-> "BLOCKLIST"]

CandidatesValues ==
    { CandidateArray(<< >>),
      CandidateArray(<<CandRecitation, CandOther, CandBlocklist>>),
      CandidateArray(<<CandStop>>),
      CandidateArray(<<CandMaxTokens, CandNoContent, CandNoFinishReason>>),
      CandidateArrayLike(<<CandStop>>),
      CandidateArrayLike(<<CandNoContent>>) }

TextValues ==
    { TextReturns(TextFour),
      TextReturns(EmptyString),
      TextThrows(ErrorInstance(<<"Response was blocked">>, None)),
      TextString(TextPlain) }

UsageFull == [promptTokenCount |-> 3, candidatesTokenCount |-> 1, totalTokenCount |-> 4]

UsagePartial == [promptTokenCount |-> 3]

\* An object with the given optional properties (None: the key is absent).
ResponseObject(candidates, text, usageMetadata) ==
    [k \in {"type"}
        \cup (IF candidates # None THEN {"candidates"} ELSE {})
        \cup (IF text # None THEN {"text"} ELSE {})
        \cup (IF usageMetadata # None THEN {"usageMetadata"} ELSE {}) |->
     CASE k = "type" -> "object"
       [] k = "candidates" -> candidates[1]
       [] k = "text" -> text[1]
       [] k = "usageMetadata" -> usageMetadata[1]]

Opt(S) == { None } \cup { Some(v) : v \in S }

ResponseObjects ==
    { ResponseObject(c, t, u) :
        c \in Opt(CandidatesValues), t \in Opt(TextValues), u \in Opt({UsageFull}) }
    \cup { ResponseObject(None, Some(TextReturns(TextFour)), Some(UsagePartial)),
           ResponseObject(Some(CandidateArray(<<CandStop>>)), None, Some(UsagePartial)) }

\* { response: inner, ...own properties of outer }
Wrap(outer, inner) ==
    [k \in DOMAIN outer \cup {"response"} |->
        IF k = "response" THEN inner ELSE outer[k]]

RawResponses ==
    ResponseObjects
    \cup { JsNull }
    \cup { Wrap(ResponseObject(None, None, None), inner) :
             inner \in { JsNull } \cup
                 { ResponseObject(c, t, Some(UsageFull)) :
                     c \in Opt(CandidatesValues), t \in Opt(TextValues) } }
    \cup { Wrap(ResponseObject(None, Some(TextReturns(TextTopLevel)), None), inner) :
             inner \in { ResponseObject(None, Some(TextReturns(TextFour)), None),
                         ResponseObject(Some(CandidateArray(<<CandStop>>)), None, None),
                         ResponseObject(None, None, None) } }

---------------------------------------------------------------------------
(* toGenkitResponse *)

Returned(value) == [throws |-> FALSE, value |-> value]

Thrown(error) == [throws |-> TRUE, error |-> error]

TypeErrorNull ==
    ErrorInstance(<<"Cannot read properties of null (reading 'candidates')">>, None)

\* String.prototype.toLowerCase on the finish-reason tokens.
ToLowerCase(s) ==
    CASE s = "STOP" -> "stop"
      [] s = "MAX_TOKENS" -> "max_tokens"
      [] s = "SAFETY" -> "safety"
      [] s = "RECITATION" -> "recitation"
      [] s = "OTHER" -> "other"
      [] s = "BLOCKLIST" -> "blocklist"
      [] OTHER -> s

\* The Genkit parts one backend part contributes: none or one.
\* Variant: a text part is not carried over.
NormalizePart_DroppingText(part) ==
    IF "functionCall" \in DOMAIN part THEN
        << [toolRequest |-> [name |-> part.functionCall.name,
                             input |-> part.functionCall.args]] >>
    ELSE IF "functionResponse" \in DOMAIN part THEN
        << [toolResponse |-> [name |-> part.functionResponse.name,
                              output |-> part.functionResponse.response]] >>
    ELSE << >>

NormalizePart(part) ==
    IF "text" \in DOMAIN part /\ Truthy(part.text) THEN
        << [text |-> part.text] >>
    ELSE IF "functionCall" \in DOMAIN part THEN
        << [toolRequest |-> [name |-> part.functionCall.name,
                             input |-> part.functionCall.args]] >>
    ELSE IF "functionResponse" \in DOMAIN part THEN
        << [toolResponse |-> [name |-> part.functionResponse.name,
                              output |-> part.functionResponse.response]] >>
    ELSE << >>

RECURSIVE NormalizeParts(_)
NormalizeParts(parts) ==
    IF parts = << >> THEN << >>
    ELSE NormalizePart(Head(parts)) \o NormalizeParts(Tail(parts))

\* candidate.content?.parts, mapped; [] when absent.
CandidateParts(candidate) ==
    IF "content" \in DOMAIN candidate /\ "parts" \in DOMAIN candidate.content
    THEN NormalizeParts(candidate.content.parts)
    ELSE << >>

\* candidate.finishReason?.toLowerCase() || 'other', with max_tokens -> length.
FinishReason(candidate) ==
    LET lowered == IF "finishReason" \in DOMAIN candidate /\ candidate.finishReason # ""
                   THEN ToLowerCase(candidate.finishReason)
                   ELSE "other"
    IN  IF lowered = "max_tokens" THEN "length" ELSE lowered

\* An optional property of an object, as an optional value.
Prop(obj, key) == IF key \in DOMAIN obj THEN Some(obj[key]) ELSE None

NormalizeCandidate(candidate, i) ==
    [index |-> i,
     message |-> [role |-> "model", content |-> CandidateParts(candidate)],
     finishReason |-> FinishReason(candidate),
     custom |-> [safetyRatings |-> Prop(candidate, "safetyRatings"),
                 citationMetadata |-> Prop(candidate, "citationMetadata"),
                 groundingMetadata |-> Prop(candidate, "groundingMetadata")]]

\* The candidate pushed by the text fallback.
TextCandidate(text) ==
    [index |-> 0,
     message |-> [role |-> "model", content |-> << [text |-> text] >>],
     finishReason |-> "stop",
     custom |-> [k \in {} |-> None]]

\* response.candidates?.[0]?.content?.parts?.[0]?.text, '' when not truthy.
FirstCandidateText(response) ==
    IF /\ "candidates" \in DOMAIN response
       /\ Len(response.candidates.items) >= 1
       /\ "content" \in DOMAIN response.candidates.items[1]
       /\ "parts" \in DOMAIN response.candidates.items[1].content
       /\ Len(response.candidates.items[1].content.parts) >= 1
       /\ "text" \in DOMAIN response.candidates.items[1].content.parts[1]
    THEN response.candidates.items[1].content.parts[1].text
    ELSE EmptyString

\* Variant: every counter is read from totalTokenCount.
UsageCount_TotalOnly(response, field) ==
    IF "usageMetadata" \in DOMAIN response /\ "totalTokenCount" \in DOMAIN response.usageMetadata
    THEN response.usageMetadata.totalTokenCount
    ELSE 0

\* usageMetadata?.<field> || 0
UsageCount(response, field) ==
    IF "usageMetadata" \in DOMAIN response /\ field \in DOMAIN response.usageMetadata
    THEN response.usageMetadata[field]
    ELSE 0

Usage(response) ==
    [inputTokens |-> UsageCount(response, "promptTokenCount"),
     outputTokens |-> UsageCount(response, "candidatesTokenCount"),
     totalTokens |-> UsageCount(response, "totalTokenCount")]

ResponseData(response, candidates) ==
    [candidates |-> candidates,
     usage |-> Usage(response),
     custom |-> [promptFeedback |-> Prop(response, "promptFeedback")]]

\* response.candidates && Array.isArray(response.candidates)
HasCandidateArray(response) ==
    "candidates" \in DOMAIN response /\ response.candidates.isArray

HasTextFunction(response) ==
    "text" \in DOMAIN response /\ response.text.kind = "function"

HasTextString(response) ==
    "text" \in DOMAIN response /\ response.text.kind = "string"

\* Variant: the text accessor is probed before the candidates array.
toGenkitResponse_TextFirst(response) ==
    IF ~IsObject(response) THEN Thrown(TypeErrorNull)
    ELSE IF HasTextFunction(response) /\ "throws" \in DOMAIN response.text THEN
        Thrown(response.text.throws)
    ELSE IF HasTextFunction(response) THEN
        Returned(ResponseData(response,
            IF Truthy(response.text.returns)
            THEN << TextCandidate(response.text.returns) >> ELSE << >>))
    ELSE IF HasCandidateArray(response) THEN
        Returned(ResponseData(response,
            [i \in 1..Len(response.candidates.items) |->
                NormalizeCandidate(response.candidates.items[i], i - 1)]))
    ELSE
        LET text == IF HasTextString(response) THEN response.text.value
                    ELSE FirstCandidateText(response)
        IN  Returned(ResponseData(response,
                IF Truthy(text) THEN << TextCandidate(text) >> ELSE << >>))

toGenkitResponse(response) ==
    IF ~IsObject(response) THEN Thrown(TypeErrorNull)
    ELSE IF HasCandidateArray(response) THEN
        Returned(ResponseData(response,
            [i \in 1..Len(response.candidates.items) |->
                NormalizeCandidate(response.candidates.items[i], i - 1)]))
    ELSE IF HasTextFunction(response) /\ "throws" \in DOMAIN response.text THEN
        Thrown(response.text.throws)
    ELSE
        LET text == IF HasTextFunction(response) THEN response.text.returns
                    ELSE IF HasTextString(response) THEN response.text.value
                    ELSE FirstCandidateText(response)
        IN  Returned(ResponseData(response,
                IF Truthy(text) THEN << TextCandidate(text) >> ELSE << >>))

\* if (response && typeof response === 'object' && 'response' in response)
FinalResponse(response) ==
    IF IsObject(response) /\ "response" \in DOMAIN response
    THEN response.response
    ELSE response

---------------------------------------------------------------------------
(* FirebaseAILogicConfigSchema *)

NumericFields == { "temperature", "topK", "topP", "maxOutputTokens", "candidateCount" }

\* z.number().min(0).max(2), .positive(), .min(0).max(1), .positive(),
\* .positive().max(8): no field is declared .int().
SchemaAccepts(f, v) ==
    CASE f = "temperature" -> v >= Num(0, 0) /\ v <= Num(2, 0)
      [] f = "topK" -> v > Num(0, 0)
      [] f = "topP" -> v >= Num(0, 0) /\ v <= Num(1, 0)
      [] f = "maxOutputTokens" -> v > Num(0, 0)
      [] f = "candidateCount" -> v > Num(0, 0) /\ v <= Num(8, 0)

\* FirebaseAILogicConfigSchema.safeParse({[f]: v}): the value is returned as
\* given or an error is reported.
SafeParse(f, v) ==
    [field |-> f, value |-> v, success |-> SchemaAccepts(f, v),
     data |-> IF SchemaAccepts(f, v) THEN Some(v) ELSE None]

\* Values around every boundary of the schema: -1 .. 9.9999 in steps that
\* include 0.0001 either side of a whole number.
SchemaValues == { Num(u, t) : u \in -1..9, t \in { 0, 1, 5000, 9999 } }

---------------------------------------------------------------------------
(* Model names and the registry *)

Prefix == "firebase-ai-logic/"

\* The keys of SUPPORTED_MODELS.
SupportedModelNames ==
    { <<"gemini-2.5-flash">>, <<"gemini-2.0-flash">>, <<"gemini-1.5-pro">>, <<"gemini-1.5-flash">> }

\* SUPPORTED_MODELS[modelName].name for an own key.
CanonicalName(modelName) == <<Prefix>> \o modelName

\* Properties every object literal inherits from Object.prototype.
InheritedKeys == { <<"toString">>, <<"constructor">>, <<"__proto__">>, <<"hasOwnProperty">> }

\* The `name` property of an inherited value: the functions toString and
\* hasOwnProperty, the function Object, and Object.prototype (which has none).
InheritedName(key) ==
    CASE key = <<"toString">> -> Some(<<"toString">>)
      [] key = <<"hasOwnProperty">> -> Some(<<"hasOwnProperty">>)
      [] key = <<"constructor">> -> Some(<<"Object">>)
      [] OTHER -> None

\* modelName in SUPPORTED_MODELS: own and inherited keys.
isSupportedModel(modelName) == modelName \in SupportedModelNames \cup InheritedKeys

\* modelInfo.name, undefined for Object.prototype.
ModelInfoName(modelName) ==
    IF modelName \in SupportedModelNames THEN Some(CanonicalName(modelName))
    ELSE InheritedName(modelName)

\* firebaseAILogic.model(name).name
ModelRefName(name) == <<Prefix>> \o name

\* name.replace('firebase-ai-logic/', ''): the first occurrence is removed.
RECURSIVE RemoveFirst(_, _)
RemoveFirst(s, token) ==
    IF s = << >> THEN << >>
    ELSE IF Head(s) = token THEN Tail(s)
    ELSE <<Head(s)>> \o RemoveFirst(Tail(s), token)

\* Variant: every occurrence is removed.
StripPrefix_All(name) == SelectSeq(name, LAMBDA t : t # Prefix)

StripPrefix(name) == RemoveFirst(name, Prefix)

\* The registry after ai.defineModel({name, ...}, handler).
Register(reg, name, handle) ==
    [k \in DOMAIN reg \cup {name} |-> IF k = name THEN handle ELSE reg[k]]

EmptyRegistry == [k \in {} |-> None]

\* A handle made by createFirebaseAILogicModel: the closure's modelName and
\* the getAI instance it is bound to.
LiveHandle(modelName, client) == [mode |-> "live", modelName |-> modelName, client |-> client]

\* A handle registered by the initializer's test-mode branch.
TestHandle(modelName) == [mode |-> "test", modelName |-> modelName, client |-> 0]

CanonicalNames == { CanonicalName(n) : n \in SupportedModelNames }

\* The registry after the initializer's loop over Object.keys(SUPPORTED_MODELS).
LiveRegistry(client) == [k \in CanonicalNames |-> LiveHandle(StripPrefix(k), client)]

\* Variant: the test-mode branch registers working handles.
TestRegistry_Live == LiveRegistry(0)

\* The registry after the loop of the initializer's test-mode branch.
TestRegistry == [k \in CanonicalNames |-> TestHandle(StripPrefix(k))]

TestModeError ==
    GenkitError("FAILED_PRECONDITION",
                <<"Plugin is in test mode - provide valid Firebase configuration for actual usage">>)

UnsupportedModel(modelName) ==
    GenkitError("INVALID_ARGUMENT", <<"Unsupported model: ">> \o modelName)

---------------------------------------------------------------------------
(* Firebase app, backend and client *)

NoAppConfigured ==
    GenkitError("INVALID_ARGUMENT",
                <<"Must provide either firebaseConfig or firebaseApp in plugin options">>)

SdkError == ErrorInstance(<<"Firebase: Error (app/invalid-api-key).">>, None)

\* initializeFirebaseApp; appFails: getApps/initializeApp throws.
initializeFirebaseApp(opts, appFails) ==
    IF opts.firebase = "app" THEN Returned("provided-app")
    ELSE IF opts.firebase = "config" THEN
        IF ~appFails THEN Returned("initialized-app")
        ELSE IF opts.projectId = Some("test-project") THEN Returned("mock-app")
        ELSE Thrown(SdkError)
    ELSE Thrown(NoAppConfigured)

\* getAIBackend(options.backend || 'googleAI', options.vertexAIRegion)
getAIBackend(opts) ==
    LET backend == IF opts.backend # None /\ opts.backend[1] # "" THEN opts.backend[1]
                   ELSE "googleAI"
    IN  IF backend \in {"googleAI", "vertexAI"} THEN Returned(backend)
        ELSE Thrown(GenkitError("INVALID_ARGUMENT", <<"Unsupported backend: ", backend>>))

\* initializeFirebaseApp, getAIBackend, getAI in sequence; aiFails: getAI throws.
ObtainClient(opts, appFails, aiFails) ==
    IF initializeFirebaseApp(opts, appFails).throws THEN initializeFirebaseApp(opts, appFails)
    ELSE IF getAIBackend(opts).throws THEN getAIBackend(opts)
    ELSE IF aiFails THEN Thrown(SdkError)
    ELSE Returned("firebaseAI")

\* What the SDK calls can do: succeed, or throw in initializeApp or in getAI.
\* defineFails: ai.defineModel throws when handed an undefined name.
SdkOutcomes ==
    { [appFails |-> FALSE, aiFails |-> FALSE, defineFails |-> FALSE],
      [appFails |-> TRUE, aiFails |-> FALSE, defineFails |-> FALSE],
      [appFails |-> FALSE, aiFails |-> TRUE, defineFails |-> FALSE],
      [appFails |-> FALSE, aiFails |-> FALSE, defineFails |-> TRUE] }

---------------------------------------------------------------------------
(* The handler as a state machine *)

MaxResolves == 2

DefaultKey == CanonicalName(<<"gemini-2.5-flash">>)

MaxCalls == 2

\* The locals of one invocation of the handler before it has run.
IdleFrame ==
    [pc |-> "idle", handleName |-> None, request |-> None, modelHandles |-> << >>,
     generateContentCalls |-> << >>, backendOutcome |-> None, result |-> None]

HandlerIdle ==
    /\ parsed = None
    /\ calls = [i \in 1..MaxCalls |-> IdleFrame]
    /\ pc = "idle"
    /\ handleName = None
    /\ request = None
    /\ modelHandles = << >>
    /\ generateContentCalls = << >>
    /\ backendOutcome = None
    /\ result = None

\* The plugin after an initializer run in which every SDK call succeeded.
Initialized ==
    /\ plugin = "initialized"
    /\ initError = None
    /\ registry = LiveRegistry(1)
    /\ defineModelCalls = Cardinality(SupportedModelNames)
    /\ clients = 1
    /\ resolves = 0
    /\ lastResolve = None

Init ==
    /\ options = PlainOptions
    /\ Initialized
    /\ HandlerIdle

\* The plugin initializer.
Initialize(sdk) ==
    LET client == ObtainClient(options, sdk.appFails, sdk.aiFails)
    IN  /\ plugin = "created"
        /\ IF ~client.throws
           THEN /\ plugin' = "initialized"
                /\ clients' = clients + 1
                /\ registry' = LiveRegistry(clients + 1)
                /\ defineModelCalls' = defineModelCalls + Cardinality(SupportedModelNames)
                /\ UNCHANGED initError
           ELSE IF options.firebase = "config" /\ options.projectId = Some("test-project")
           THEN /\ plugin' = "test-mode"
                /\ registry' = TestRegistry
                /\ defineModelCalls' = defineModelCalls + Cardinality(SupportedModelNames)
                /\ UNCHANGED <<clients, initError>>
           ELSE /\ plugin' = "failed"
                /\ initError' = Some(client.error)
                /\ UNCHANGED <<registry, defineModelCalls, clients>>
        /\ UNCHANGED <<options, resolves, lastResolve, handlerVars, parsed, calls>>

ResolveRecord(action, name, outcome, warned) ==
    Some([action |-> action, name |-> name, outcome |-> outcome,
          warned |-> warned, thrown |-> None])

\* The plugin resolver.  Whatever the try block throws is logged with
\* console.warn; nothing is thrown to the caller.
Resolve(action, name, sdk) ==
    LET modelName == StripPrefix(name)
        client == ObtainClient(options, sdk.appFails, sdk.aiFails)
        infoName == ModelInfoName(modelName)
        definedName == IF infoName = None THEN <<"undefined">> ELSE infoName[1]
    IN  /\ plugin \in {"initialized", "test-mode"}
        /\ resolves < MaxResolves
        /\ resolves' = resolves + 1
        /\ IF ~(action = "model" /\ StartsWith(name, <<Prefix>>))
           THEN /\ lastResolve' = ResolveRecord(action, name, "ignored", None)
                /\ UNCHANGED <<registry, defineModelCalls, clients>>
           ELSE IF client.throws
           THEN /\ lastResolve' = ResolveRecord(action, name, "warned", Some(client.error))
                /\ UNCHANGED <<registry, defineModelCalls, clients>>
           ELSE IF ~isSupportedModel(modelName)
           THEN /\ lastResolve' =
                      ResolveRecord(action, name, "warned", Some(UnsupportedModel(modelName)))
                /\ clients' = clients + 1
                /\ UNCHANGED <<registry, defineModelCalls>>
           ELSE IF infoName = None /\ sdk.defineFails
           THEN /\ lastResolve' = ResolveRecord(action, name, "warned", Some(SdkError))
                /\ clients' = clients + 1
                /\ defineModelCalls' = defineModelCalls + 1
                /\ UNCHANGED registry
           ELSE /\ lastResolve' = ResolveRecord(action, name, "defined", None)
                /\ clients' = clients + 1
                /\ defineModelCalls' = defineModelCalls + 1
                /\ registry' = Register(registry, definedName,
                                        LiveHandle(modelName, clients + 1))
        /\ UNCHANGED <<options, plugin, initError, handlerVars, parsed, calls>>

\* The synchronous part of the handler registered under `key`, up to
\* `await ....generateContent(contents)`; a test-mode handler throws at once.
Invoke(key, req) ==
    LET modelName == registry[key].modelName
    IN  /\ pc = "idle"
        /\ key \in DOMAIN registry
        /\ handleName' = Some(key)
        /\ request' = Some(req)
        /\ IF registry[key].mode = "test"
           THEN /\ pc' = "thrown"
                /\ result' = Some(TestModeError)
                /\ UNCHANGED <<modelHandles, generateContentCalls>>
           ELSE /\ pc' = "awaiting"
                /\ modelHandles' =
                      IF UsesUpdatedModel(req)
                      THEN << ModelConfig(modelName, req),
                              [ModelConfig(modelName, req) EXCEPT
                                  !.systemInstruction =
                                      toFirebaseAIRequest(req).systemInstruction] >>
                      ELSE << ModelConfig(modelName, req) >>
                /\ generateContentCalls' =
                      << GenerateContentArg(
                             FallbackContents(req, toFirebaseAIRequest(req).contents)) >>
                /\ UNCHANGED result
        /\ UNCHANGED <<backendOutcome, pluginVars, parsed, calls>>

\* Variant: a rejected call is issued once more before the error is thrown.
BackendReject_Retrying(error) ==
    /\ pc = "awaiting"
    /\ pc' = "thrown"
    /\ backendOutcome' = Some([rejected |-> error])
    /\ generateContentCalls' = generateContentCalls \o generateContentCalls
    /\ result' =
          Some(OuterCatch(IF UsesUpdatedModel(request[1])
                          THEN UpdatedModelCatch(error)
                          ELSE GenerateCatch(error)))
    /\ UNCHANGED <<handleName, request, modelHandles, pluginVars, parsed, calls>>

\* generateContent rejects: inner catch, then the outer catch.
BackendReject(error) ==
    /\ pc = "awaiting"
    /\ pc' = "thrown"
    /\ backendOutcome' = Some([rejected |-> error])
    /\ result' =
          Some(OuterCatch(IF UsesUpdatedModel(request[1])
                          THEN UpdatedModelCatch(error)
                          ELSE GenerateCatch(error)))
    /\ UNCHANGED <<handleName, request, modelHandles, generateContentCalls, pluginVars, parsed, calls>>

\* Variant: when normalization throws, a response without candidates is
\* returned instead.
BackendResolve_Partial(raw) ==
    LET normalized == toGenkitResponse(FinalResponse(raw))
    IN  /\ pc = "awaiting"
        /\ pc' = "returned"
        /\ backendOutcome' = Some([resolved |-> raw])
        /\ result' = IF normalized.throws
                     THEN Some(ResponseData([type |-> "object"], << >>))
                     ELSE Some(normalized.value)
        /\ UNCHANGED <<handleName, request, modelHandles, generateContentCalls, pluginVars, parsed, calls>>

\* generateContent resolves: unwrap, normalize; a throw lands in the outer catch.
BackendResolve(raw) ==
    LET normalized == toGenkitResponse(FinalResponse(raw))
    IN  /\ pc = "awaiting"
        /\ pc' = IF normalized.throws THEN "thrown" ELSE "returned"
        /\ backendOutcome' = Some([resolved |-> raw])
        /\ result' = IF normalized.throws
                     THEN Some(OuterCatch(normalized.error))
                     ELSE Some(normalized.value)
        /\ UNCHANGED <<handleName, request, modelHandles, generateContentCalls, pluginVars, parsed, calls>>

\* The guards are repeated ahead of the quantifiers so that a disabled
\* action does not enumerate its inputs.
Next ==
    \/ pc = "idle" /\ \E req \in Requests : Invoke(DefaultKey, req)
    \/ pc = "awaiting" /\ \E raw \in RawResponses : BackendResolve(raw)
    \/ pc = "awaiting" /\ \E error \in BackendErrors : BackendReject(error)

Spec == Init /\ [][Next]_vars

---------------------------------------------------------------------------
(* Configuration merge: calls on an initialized plugin, over plugin defaults
   and per-call configs *)

ConfigRaws == { ResponseObject(None, Some(TextReturns(TextFour)), Some(UsageFull)), JsNull }

ConfigErrors == { ThrownString(<<"socket hang up">>) }

InitConfig ==
    /\ options \in ConfigOptions
    /\ Initialized
    /\ HandlerIdle

NextConfig ==
    \/ pc = "idle" /\ \E req \in ConfigRequests : Invoke(DefaultKey, req)
    \/ pc = "awaiting" /\ \E raw \in ConfigRaws : BackendResolve(raw)
    \/ pc = "awaiting" /\ \E error \in ConfigErrors : BackendReject(error)

SpecConfig == InitConfig /\ [][NextConfig]_vars

---------------------------------------------------------------------------
(* Plugin lifecycle: initializer, resolver and calls on registered handles *)

\* Names handed to the resolver: the canonical names, an unknown model,
\* inherited property names, a bare name, another plugin's model and a name
\* carrying the prefix twice.
ResolveNames ==
    CanonicalNames
    \cup { <<Prefix, "invalid-model">>, <<Prefix, "toString">>, <<Prefix, "constructor">>,
           <<Prefix, "__proto__">>, <<"gemini-2.5-flash">>, <<"openai/", "gpt-4o">>,
           <<Prefix, Prefix, "gemini-2.5-flash">> }

ResolveInputs ==
    { [action |-> "model", name |-> n] : n \in ResolveNames }
    \cup { [action |-> "embedder", name |-> DefaultKey] }

PluginRequests ==
    { Request(Some(<<UserTextMsg>>), None, [prompt |-> None, input |-> None], NoConfig),
      Request(Some(<<SysTerseMsg, UserTextMsg>>), None,
              [prompt |-> None, input |-> None], NoConfig) }

InitPlugin ==
    /\ options \in PluginOptions
    /\ plugin = "created"
    /\ initError = None
    /\ registry = EmptyRegistry
    /\ defineModelCalls = 0
    /\ clients = 0
    /\ resolves = 0
    /\ lastResolve = None
    /\ HandlerIdle

NextPlugin ==
    \/ plugin = "created" /\ \E sdk \in SdkOutcomes : Initialize(sdk)
    \/ plugin \in {"initialized", "test-mode"} /\ resolves < MaxResolves
          /\ \E in \in ResolveInputs, sdk \in SdkOutcomes : Resolve(in.action, in.name, sdk)
    \/ pc = "idle" /\ \E key \in DOMAIN registry, req \in PluginRequests : Invoke(key, req)
    \/ pc = "awaiting" /\ \E raw \in ConfigRaws : BackendResolve(raw)
    \/ pc = "awaiting" /\ \E error \in ConfigErrors : BackendReject(error)

SpecPlugin == InitPlugin /\ [][NextPlugin]_vars

---------------------------------------------------------------------------
(* Translation of parts: one user message over every short sequence of
   parts, answered by a single candidate with a single text part *)

MaxParts == 2

TextGreeting == <<"Hello", ",", " world">>

\* Texts: empty, one token, several tokens, blank, "0", and texts that read
\* like the URLs of media parts.
Texts == { EmptyString, TextFour, TextGreeting, <<" ">>, <<"0">>, DataUrl, GsUrl }

\* data:text/plain;charset=utf-8;base64,aGk=
DataUrlCharset ==
    <<"data", ":", "text/plain", ";", "charset=utf-8", ";", "base64", ",", "aGk=">>

\* data:text/plain,a,b : not base64, with a comma in the payload.
DataUrlPlain == <<"data", ":", "text/plain", ",", "a", ",", "b">>

Parts ==
    { TextPart(EmptyString), TextPart(TextFour), TextPart(TextGreeting),
      MediaPart(DataUrl, <<"image/png">>), MediaPart(DataUrlCharset, <<"text/plain">>),
      MediaPart(DataUrlPlain, <<"text/plain">>), MediaPart(GsUrl, <<"image/png">>),
      MediaPart(HttpsUrl, <<"image/png">>), ToolRequestPart, ToolResponsePart }

Contents ==
    UNION { [1..n -> Parts] : n \in 1..MaxParts }
    \cup { <<TextPart(t)>> : t \in Texts }

PartsRequest(content) ==
    Request(Some(<<Msg("user", content)>>), None, [prompt |-> None, input |-> None], NoConfig)

\* A response with one candidate holding one text part.
TextResponse(t) ==
    ResponseObject(
        Some(CandidateArray(<< [content |-> [parts |-> << [text |-> t] >>],
                                finishReason |-> "STOP"] >>)),
        None, None)

NextTranslate ==
    \/ pc = "idle" /\ \E content \in Contents : Invoke(DefaultKey, PartsRequest(content))
    \/ pc = "awaiting" /\ \E t \in Texts : BackendResolve(TextResponse(t))
    \/ pc = "awaiting" /\ \E error \in ConfigErrors : BackendReject(error)

SpecTranslate == Init /\ [][NextTranslate]_vars

---------------------------------------------------------------------------
(* Concurrent invocations: each call of the handler has its own locals and
   the calls interleave at the generateContent await *)

\* Variant: the translated contents are kept in one array shared by the
\* calls, so a call also sends what the calls before it pushed.
StartFrame_SharedContents(key, req) ==
    LET modelName == registry[key].modelName
        pushed == [i \in 1..MaxCalls |->
                      IF calls[i].generateContentCalls = << >> THEN << >>
                      ELSE calls[i].generateContentCalls[1].items]
    IN  [pc |-> "awaiting",
         handleName |-> Some(key),
         request |-> Some(req),
         modelHandles |-> << ModelConfig(modelName, req) >>,
         generateContentCalls |->
             << GenerateContentArg(pushed[1] \o pushed[MaxCalls]
                    \o FallbackContents(req, toFirebaseAIRequest(req).contents)) >>,
         backendOutcome |-> None,
         result |-> None]

\* The locals of a call after its synchronous part.
StartFrame(key, req) ==
    LET modelName == registry[key].modelName
    IN  IF registry[key].mode = "test"
        THEN [IdleFrame EXCEPT !.pc = "thrown", !.handleName = Some(key),
                               !.request = Some(req), !.result = Some(TestModeError)]
        ELSE [pc |-> "awaiting",
              handleName |-> Some(key),
              request |-> Some(req),
              modelHandles |->
                  IF UsesUpdatedModel(req)
                  THEN << ModelConfig(modelName, req),
                          [ModelConfig(modelName, req) EXCEPT
                              !.systemInstruction =
                                  toFirebaseAIRequest(req).systemInstruction] >>
                  ELSE << ModelConfig(modelName, req) >>,
              generateContentCalls |->
                  << GenerateContentArg(
                         FallbackContents(req, toFirebaseAIRequest(req).contents)) >>,
              backendOutcome |-> None,
              result |-> None]

\* The locals of a call after its generateContent rejected.
RejectFrame(frame, error) ==
    [frame EXCEPT
        !.pc = "thrown",
        !.backendOutcome = Some([rejected |-> error]),
        !.result = Some(OuterCatch(IF UsesUpdatedModel(frame.request[1])
                                   THEN UpdatedModelCatch(error)
                                   ELSE GenerateCatch(error)))]

\* The locals of a call after its generateContent resolved.
ResolveFrame(frame, raw) ==
    LET normalized == toGenkitResponse(FinalResponse(raw))
    IN  [frame EXCEPT
            !.pc = IF normalized.throws THEN "thrown" ELSE "returned",
            !.backendOutcome = Some([resolved |-> raw]),
            !.result = IF normalized.throws
                       THEN Some(OuterCatch(normalized.error))
                       ELSE Some(normalized.value)]

InvokeCall(i, key, req) ==
    /\ calls[i].pc = "idle"
    /\ key \in DOMAIN registry
    /\ calls' = [calls EXCEPT ![i] = StartFrame(key, req)]
    /\ UNCHANGED <<pluginVars, handlerVars, parsed>>

RejectCall(i, error) ==
    /\ calls[i].pc = "awaiting"
    /\ calls' = [calls EXCEPT ![i] = RejectFrame(calls[i], error)]
    /\ UNCHANGED <<pluginVars, handlerVars, parsed>>

ResolveCall(i, raw) ==
    /\ calls[i].pc = "awaiting"
    /\ calls' = [calls EXCEPT ![i] = ResolveFrame(calls[i], raw)]
    /\ UNCHANGED <<pluginVars, handlerVars, parsed>>

\* Two handles of the initialized plugin.
ConcurrentKeys == { DefaultKey, CanonicalName(<<"gemini-1.5-pro">>) }

NextConcurrent ==
    \/ \E i \in 1..MaxCalls, key \in ConcurrentKeys, req \in PluginRequests :
          InvokeCall(i, key, req)
    \/ \E i \in 1..MaxCalls, raw \in ConfigRaws : ResolveCall(i, raw)
    \/ \E i \in 1..MaxCalls, error \in ConfigErrors : RejectCall(i, error)

SpecConcurrent == Init /\ [][NextConcurrent]_vars

---------------------------------------------------------------------------
(* The config schema applied to one field *)

InitSchema ==
    /\ options = PlainOptions
    /\ Initialized
    /\ HandlerIdle

Parse(f, v) ==
    /\ parsed = None
    /\ parsed' = Some(SafeParse(f, v))
    /\ UNCHANGED <<pluginVars, handlerVars, calls>>

NextSchema == \E f \in NumericFields, v \in SchemaValues : Parse(f, v)

SpecSchema == InitSchema /\ [][NextSchema]_vars

---------------------------------------------------------------------------
(* Observations used by the properties *)

Req == request[1]

Invoked == pc # "idle"

\* The argument of the one generateContent call.
BackendContent == generateContentCalls[1]

\* The model handle whose generateContent is called: the last one created.
CallingHandle == modelHandles[Len(modelHandles)]

ConversationOf(req) == IF req.messages = None THEN << >> ELSE req.messages[1]

IsUser(m) == m.role = "user"

IsSystem(m) == m.role = "system"

UserMessagesOf(req) == SelectSeq(ConversationOf(req), IsUser)

SystemMessagesOf(req) == SelectSeq(ConversationOf(req), IsSystem)

Rejected == backendOutcome # None /\ "rejected" \in DOMAIN backendOutcome[1]

Resolved == backendOutcome # None /\ "resolved" \in DOMAIN backendOutcome[1]

\* Every text carried by a generateContent argument, nested parts included.
TextsOfItem(item) ==
    (IF "text" \in DOMAIN item THEN { item.text } ELSE {})
    \cup (IF "parts" \in DOMAIN item
          THEN { item.parts[i].text : i \in 1..Len(item.parts) } ELSE {})

TextsOf(arg) == UNION { TextsOfItem(arg.items[i]) : i \in 1..Len(arg.items) }

---------------------------------------------------------------------------
(* Properties *)

\* C1: with more than one user message, the backend content is exactly the
\* translated parts of the last user message, in order.  The translator
\* appends the parts of every non-system message instead.
C1_OnlyLastUserMessage ==
    (Invoked /\ Len(UserMessagesOf(Req)) > 1) =>
        BackendContent.items =
            TranslateParts(UserMessagesOf(Req)[Len(UserMessagesOf(Req))].content)

NoTranslatableUserPart(req) ==
    \A i \in 1..Len(UserMessagesOf(req)) :
        TranslateParts(UserMessagesOf(req)[i].content) = << >>

NoFallback(req) == ~TruthyOpt(req.prompt) /\ ~TruthyOpt(req.input)

\* C2: without a user message that has a translatable part and without a
\* prompt/input fallback the call fails and generateContent is never
\* invoked.  The handler calls generateContent all the same.
C2_EmptyContentFails ==
    (Invoked /\ NoTranslatableUserPart(Req) /\ NoFallback(Req)) =>
        /\ generateContentCalls = << >>
        /\ pc = "thrown"

\* C3 as stated: whenever config.systemInstruction is present (the empty
\* string included) next to a system message, the calling handle carries
\* config.systemInstruction.
C3_ConfigPresentWins ==
    (Invoked /\ Req.systemInstruction # None /\ SystemMessagesOf(Req) # << >>) =>
        CallingHandle.systemInstruction = Req.systemInstruction

\* C3 amended: when config.systemInstruction is a non-empty string and the
\* conversation has a system message, the only handle created carries
\* config.systemInstruction and no system message text reaches the backend,
\* neither as system instruction nor in the content.
C3_NonEmptyConfigWins ==
    (Invoked /\ TruthyOpt(Req.systemInstruction) /\ SystemMessagesOf(Req) # << >>) =>
        /\ CallingHandle.systemInstruction = Req.systemInstruction
        /\ \A h \in 1..Len(modelHandles) :
               modelHandles[h].systemInstruction = Req.systemInstruction
        /\ \A i \in 1..Len(SystemMessagesOf(Req)) :
               \A p \in 1..Len(SystemMessagesOf(Req)[i].content) :
                   SystemMessagesOf(Req)[i].content[p].text \notin TextsOf(BackendContent)

C3_Witness ==
    /\ pc = "awaiting"
    /\ Req.systemInstruction = Some(CfgSys)
    /\ Req.messages = Some(<<SysTerseMsg, UserTextMsg>>)
    /\ CallingHandle.systemInstruction = Some(CfgSys)
    /\ BackendContent.items = << [text |-> TextTwoPlusTwo] >>

\* C4: without config.systemInstruction and with several system messages the
\* resolved system instruction is the text of the first system message.
\* The translator's loop lets every later system message overwrite it.
C4_FirstSystemMessageWins ==
    (Invoked /\ Req.systemInstruction = None /\ Len(SystemMessagesOf(Req)) > 1) =>
        CallingHandle.systemInstruction = Some(SystemText(SystemMessagesOf(Req)[1]))

\* C5: a translation of exactly one text part reaches generateContent as
\* the bare string, anything else as the ordered part sequence; the
\* conversation [system "Be terse.", user "2+2?"] gives "2+2?" with system
\* instruction "Be terse.".  The handler always passes the array.
C5_BareStringForSingleText ==
    Invoked =>
        LET contents == toFirebaseAIRequest(Req).contents
        IN  /\ (Len(contents) = 1 /\ "text" \in DOMAIN contents[1]) =>
                   BackendContent = [type |-> "string", value |-> contents[1].text]
            /\ (Len(contents) > 1 \/ (Len(contents) = 1 /\ "text" \notin DOMAIN contents[1])) =>
                   BackendContent = [type |-> "array", items |-> contents]
            /\ (Req.messages = Some(<<SysTerseMsg, UserTextMsg>>) /\ Req.systemInstruction = None) =>
                   /\ BackendContent = [type |-> "string", value |-> TextTwoPlusTwo]
                   /\ CallingHandle.systemInstruction = Some(SysTerse)

KindOfCode(code) ==
    CASE code = "invalid-argument" -> "INVALID_ARGUMENT"
      [] code = "permission-denied" -> "PERMISSION_DENIED"
      [] code = "resource-exhausted" -> "RESOURCE_EXHAUSTED"
      [] code = "quota-exceeded" -> "RESOURCE_EXHAUSTED"
      [] OTHER -> "INTERNAL"

\* C6: a backend failure carrying a code is thrown with the kind of that
\* code, on either system-instruction path.  The outer catch rewraps every
\* classified error as INTERNAL.
C6_KindFollowsCode ==
    (pc = "thrown" /\ Rejected /\ backendOutcome[1].rejected.code # None) =>
        result[1].status = KindOfCode(backendOutcome[1].rejected.code[1])

Mentions(message, words) == \E i \in 1..Len(message) : message[i] \in words

KindOfMessage(message) ==
    IF Mentions(message, {"quota", "Quota", "QUOTA"}) THEN "RESOURCE_EXHAUSTED"
    ELSE IF Mentions(message, {"permission", "Permission", "PERMISSION"}) THEN "PERMISSION_DENIED"
    ELSE IF Mentions(message, {"invalid", "Invalid", "INVALID"}) THEN "INVALID_ARGUMENT"
    ELSE "INTERNAL"

\* C7: a failure without a code is classified by what its message
\* mentions, case-insensitively.  The handler never inspects the message.
C7_KindFollowsMessage ==
    (pc = "thrown" /\ Rejected /\ backendOutcome[1].rejected.code = None) =>
        result[1].status = KindOfMessage(getErrorMessage(backendOutcome[1].rejected))

HasMessage(error) ==
    error.kind \in {"Error", "string"} \/ (error.kind = "object" /\ error.message # None)

\* C8: the error thrown for a backend failure with message m (an Error, a
\* thrown string, an object with a message) names the plugin as its source
\* and contains m, unmodified and contiguous, on both system-instruction
\* paths.
C8_MessagePreserved ==
    (pc = "thrown" /\ Rejected /\ HasMessage(backendOutcome[1].rejected)) =>
        /\ result[1].source = "firebase-ai-logic-plugin"
        /\ Contains(result[1].message[1], backendOutcome[1].rejected.message[1])

C8_Witness ==
    /\ pc = "thrown"
    /\ Rejected
    /\ backendOutcome[1].rejected = ThrownObject(Some(<<"socket hang up">>), Some("unavailable"))
    /\ UsesUpdatedModel(Req)
    /\ Contains(result[1].message[1], <<"socket hang up">>)

UnrecognizedShape(raw) ==
    LET body == IF IsObject(raw) /\ "response" \in DOMAIN raw THEN raw.response ELSE raw
    IN  \/ ~IsObject(body)
        \/ /\ "candidates" \notin DOMAIN body
           /\ \/ "text" \notin DOMAIN body
              \/ /\ body.text.kind = "function"
                 /\ \/ "throws" \in DOMAIN body.text
                    \/ body.text.returns = EmptyString

\* C9: a raw value of no recognized shape (null, neither candidates nor
\* usable text, an empty text) or whose text accessor throws still yields a
\* response with one synthetic candidate, finishReason other, zero usage.
\* The normalizer throws on null and on a throwing accessor and returns no
\* candidate otherwise.
C9_NormalizationNeverRaises ==
    (pc \in {"returned", "thrown"} /\ Resolved /\ UnrecognizedShape(backendOutcome[1].resolved)) =>
        /\ pc = "returned"
        /\ Len(result[1].candidates) = 1
        /\ result[1].candidates[1].finishReason = "other"
        /\ Len(result[1].candidates[1].message.content) = 1
        /\ "text" \in DOMAIN result[1].candidates[1].message.content[1]
        /\ result[1].usage = [inputTokens |-> 0, outputTokens |-> 0, totalTokens |-> 0]

UnwrappedBody(raw) ==
    IF IsObject(raw) /\ "response" \in DOMAIN raw THEN raw.response ELSE raw

ReturnsText(body) ==
    /\ HasTextFunction(body)
    /\ "returns" \in DOMAIN body.text
    /\ Truthy(body.text.returns)

TruthyTexts(parts) ==
    LET carriesText(p) == "text" \in DOMAIN p /\ Truthy(p.text)
        kept == SelectSeq(parts, carriesText)
    IN  [i \in 1..Len(kept) |-> kept[i].text]

BackendTexts(candidate) ==
    IF "content" \in DOMAIN candidate THEN TruthyTexts(candidate.content.parts) ELSE << >>

FinishReasons == {"stop", "length", "safety", "other"}

\* C11: every candidate of a normalized response has a finishReason among
\* stop, length, safety, other, whatever token the backend returned, and
\* MAX_TOKENS becomes length.  The normalizer lower-cases the token and
\* passes RECITATION and unknown tokens through.
C11_FinishReasonInEnum ==
    (pc = "returned") =>
        \A i \in 1..Len(result[1].candidates) :
            result[1].candidates[i].finishReason \in FinishReasons

\* C12: the normalized usage copies promptTokenCount, candidatesTokenCount
\* and totalTokenCount, each 0 when the field or usageMetadata is missing;
\* a response exposing only a text accessor returning "4" with usage
\* {3,1,4} gives one candidate with text "4", finishReason stop, usage
\* {3,1,4}.
UsageField(body, field) ==
    IF "usageMetadata" \notin DOMAIN body THEN 0
    ELSE IF field \notin DOMAIN body.usageMetadata THEN 0
    ELSE body.usageMetadata[field]

C12_UsageCopied ==
    (pc = "returned") =>
        LET body == UnwrappedBody(backendOutcome[1].resolved)
        IN  /\ result[1].usage.inputTokens = UsageField(body, "promptTokenCount")
            /\ result[1].usage.outputTokens = UsageField(body, "candidatesTokenCount")
            /\ result[1].usage.totalTokens = UsageField(body, "totalTokenCount")
            /\ (body = ResponseObject(None, Some(TextReturns(TextFour)), Some(UsageFull))) =>
                  /\ Len(result[1].candidates) = 1
                  /\ result[1].candidates[1].message.content = << [text |-> TextFour] >>
                  /\ result[1].candidates[1].finishReason = "stop"
                  /\ result[1].usage = [inputTokens |-> 3, outputTokens |-> 1, totalTokens |-> 4]

C12_Witness ==
    /\ pc = "returned"
    /\ backendOutcome[1].resolved =
          ResponseObject(None, Some(TextReturns(TextFour)), Some(UsageFull))
    /\ result[1].usage = [inputTokens |-> 3, outputTokens |-> 1, totalTokens |-> 4]
    /\ Len(result[1].candidates) = 1


\* The value of a field in the configuration a model handle was created with.
EffectiveField(handle, f) ==
    IF f = "safetySettings" THEN handle.safetySettings
    ELSE IF handle.generationConfig = None THEN None
    ELSE handle.generationConfig[1][f]

DefaultOf(f) ==
    IF f = "safetySettings" THEN options.defaultSafetySettings
    ELSE options.defaultGenerationConfig[f]

\* C13: every field of the configuration sent to the backend is the per-call
\* value when the per-call config has it, otherwise the plugin default when
\* the defaults have it, otherwise absent.  stopSequences, candidateCount,
\* responseMimeType and responseSchema never fall back to the defaults.
C13_PerCallThenDefaultThenAbsent ==
    pc = "awaiting" =>
        \A f \in ConfigFields \cup {"safetySettings"} :
            EffectiveField(CallingHandle, f) =
                IF Req.config[f] # None THEN Req.config[f] ELSE DefaultOf(f)

\* The value a numeric field has after the merge the claim describes.
MergedValue(req, f) == IF req.config[f] # None THEN req.config[f] ELSE DefaultOf(f)

OutOfRange(req) ==
    \E f \in NumericFields :
        MergedValue(req, f) # None /\ ~SchemaAccepts(f, MergedValue(req, f)[1])

\* C14: a generation call whose merged config has a numeric field outside the
\* schema's range fails before any model handle is created and before
\* generateContent is called.  The handler validates nothing: plugin defaults
\* outside the range reach getGenerativeModel and generateContent.
C14_OutOfRangeFailsBeforeBackend ==
    (Invoked /\ OutOfRange(Req)) =>
        /\ pc = "thrown"
        /\ modelHandles = << >>
        /\ generateContentCalls = << >>

\* The ranges as the specification declares them.
DeclaredRange(f, v) ==
    CASE f = "temperature" -> v >= Num(0, 0) /\ v <= Num(2, 0)
      [] f = "topP" -> v >= Num(0, 0) /\ v <= Num(1, 0)
      [] f = "topK" -> IsInteger(v) /\ v >= Num(1, 0)
      [] f = "maxOutputTokens" -> IsInteger(v) /\ v >= Num(1, 0)
      [] f = "candidateCount" -> IsInteger(v) /\ v >= Num(1, 0) /\ v <= Num(8, 0)

\* C15: the schema accepts a value exactly when it lies in the declared
\* range, and an accepted value is passed on unchanged.  The schema accepts
\* fractional topK, maxOutputTokens and candidateCount.
C15_AcceptsIffInRange ==
    parsed # None =>
        /\ parsed[1].success <=> DeclaredRange(parsed[1].field, parsed[1].value)
        /\ parsed[1].success => parsed[1].data = Some(parsed[1].value)

\* C16: right after plugin initialization, before any name is resolved, no
\* model handle is registered.  The initializer registers a handle for every
\* supported model.
C16_NothingRegisteredAfterInit ==
    (plugin = "initialized" /\ resolves = 0) => DOMAIN registry = {}

\* A resolver step for `name`.
ResolveStep(name) ==
    /\ resolves' = resolves + 1
    /\ lastResolve' # None
    /\ lastResolve'[1].action = "model"
    /\ lastResolve'[1].name = name

\* C17: resolving a supported name that is already registered raises
\* nothing, calls defineModel no further time, obtains no new client and
\* leaves the handle registered under its canonical name.  The resolver
\* obtains a client and defines the model again on every call.
C17_ResolveIdempotent ==
    [][\A name \in CanonicalNames :
          (ResolveStep(name) /\ name \in DOMAIN registry) =>
              /\ lastResolve'[1].thrown = None
              /\ defineModelCalls' = defineModelCalls
              /\ clients' = clients
              /\ name \in DOMAIN registry']_vars

\* The last resolver call was for a prefixed name whose bare name is not a
\* key of SUPPORTED_MODELS.
ResolvedUnsupported ==
    /\ lastResolve # None
    /\ lastResolve[1].action = "model"
    /\ StartsWith(lastResolve[1].name, <<Prefix>>)
    /\ StripPrefix(lastResolve[1].name) \notin SupportedModelNames

\* C18: resolving a prefixed name whose bare name is not supported throws an
\* INVALID_ARGUMENT "Unsupported model" error to the resolver's caller.  The
\* resolver catches the error and logs it.
C18_UnsupportedNameRaises ==
    ResolvedUnsupported =>
        /\ lastResolve[1].thrown # None
        /\ lastResolve[1].thrown[1].status = "INVALID_ARGUMENT"
        /\ Contains(lastResolve[1].thrown[1].message[1], <<"Unsupported model: ">>)

\* C19: every registered model has a canonical name, prefix plus one of the
\* four supported bare names.  Resolving the name of an inherited property
\* such as 'toString' registers a model under that property's own name.
C19_RegistryClosed == DOMAIN registry \subseteq CanonicalNames

\* The last resolver call defined the handle on which generation now runs.
ResolvedThenInvoked ==
    /\ lastResolve # None
    /\ lastResolve[1].outcome = "defined"
    /\ handleName = Some(lastResolve[1].name)

\* C20: for every supported bare name n, the reference made for n is named
\* prefix + n; resolving that name strips the prefix once, so the handle is
\* registered under prefix + n with n as its model name, and a name carrying
\* the prefix twice is not resolved to n; every model handle created by a
\* generation call on that handle is given the bare n as its model.
C20_NamingRoundTrip ==
    \A n \in SupportedModelNames :
        /\ ModelRefName(n) = CanonicalName(n)
        /\ StripPrefix(ModelRefName(n)) = n
        /\ (lastResolve # None /\ lastResolve[1].action = "model") =>
              /\ (lastResolve[1].name = ModelRefName(n) /\ lastResolve[1].outcome = "defined") =>
                    /\ ModelRefName(n) \in DOMAIN registry
                    /\ registry[ModelRefName(n)].modelName = n
              /\ lastResolve[1].name = <<Prefix>> \o ModelRefName(n) =>
                    lastResolve[1].outcome = "warned"
        /\ (pc = "awaiting" /\ handleName = Some(ModelRefName(n))) =>
              \A i \in 1..Len(modelHandles) : modelHandles[i].model = n

C20_Witness ==
    /\ ResolvedThenInvoked
    /\ pc = "awaiting"
    /\ handleName[1] \in CanonicalNames
    /\ Len(modelHandles) = 2

\* C21: an invocation calls generateContent at most once, on either
\* system-instruction path; after a rejection the invocation has ended with
\* an error and the one call is the only call.
C21_NoRetry ==
    /\ Len(generateContentCalls) <= 1
    /\ Rejected =>
          /\ pc = "thrown"
          /\ Len(generateContentCalls) = 1
          /\ result[1].kind = "Error"

C21_Witness ==
    /\ Rejected
    /\ UsesUpdatedModel(Req)
    /\ Len(modelHandles) = 2
    /\ pc = "thrown"

\* C22: the client binding (app, backend, getAI client) is made once per
\* plugin, by the initializer, and every registered handle is bound to it.
\* The resolver makes the binding again on each call and binds the handle it
\* defines to the new one.
C22_OneClientBinding ==
    /\ clients <= 1
    /\ \A k \in DOMAIN registry :
          registry[k].mode = "live" => registry[k].client = 1

\* The content of the one user message of the request.
UserContent == ConversationOf(Req)[1].content

\* The request is one user message with the single part {text: t}.
SingleText(t) == Invoked /\ ConversationOf(Req) = <<Msg("user", <<TextPart(t)>>)>>

\* The backend answered with one candidate holding the single text part t.
AnsweredText(t) == Resolved /\ backendOutcome[1].resolved = TextResponse(t)

RoundTrip(t) ==
    /\ SingleText(t) => BackendContent.items = << [text |-> t] >>
    /\ AnsweredText(t) =>
          /\ pc = "returned"
          /\ Len(result[1].candidates) = 1
          /\ result[1].candidates[1].message.content = << TextPart(t) >>

\* C23 as stated: for every text t, the single part {text: t} is translated
\* to backend text t, and a single candidate with the single text part t is
\* normalized to one candidate whose content is the single part {text: t}.
\* The empty text is dropped in both directions.
C23_TextRoundTripAnyText == \A t \in Texts : RoundTrip(t)

\* C23, amended: the round trip holds for every non-empty text.
C23_TextRoundTrip == \A t \in Texts \ {EmptyString} : RoundTrip(t)

C23_Witness ==
    /\ SingleText(TextGreeting)
    /\ AnsweredText(TextGreeting)
    /\ pc = "returned"

\* The statuses of the errors the plugin creates.
Kinds ==
    { "INVALID_ARGUMENT", "PERMISSION_DENIED", "RESOURCE_EXHAUSTED", "INTERNAL",
      "FAILED_PRECONDITION" }

\* A GenkitError with one of the statuses and a non-empty message.
Classified(error) ==
    /\ "status" \in DOMAIN error
    /\ error.status \in Kinds
    /\ TruthyOpt(error.message)

\* C24: every error that leaves the plugin, from a generation call, from a
\* resolution or from the initializer, is classified.  The initializer
\* rethrows whatever the Firebase SDK threw.
C24_EveryErrorClassified ==
    /\ pc = "thrown" => Classified(result[1])
    /\ (lastResolve # None /\ lastResolve[1].thrown # None) =>
          Classified(lastResolve[1].thrown[1])
    /\ initError # None => Classified(initError[1])

\* What normalization makes of the resolved backend value.
Normalized == toGenkitResponse(FinalResponse(backendOutcome[1].resolved))

\* C25: an invocation ends in exactly one outcome.  A response is returned
\* only after generateContent resolved and is the whole normalized response;
\* after a rejection, or when normalization throws, the outcome is one
\* thrown error and no response; before the backend answers there is no
\* outcome.
C25_OneOutcome ==
    /\ pc \in {"idle", "awaiting"} => (result = None /\ backendOutcome = None)
    /\ pc = "returned" =>
          /\ Resolved
          /\ ~Normalized.throws
          /\ result = Some(Normalized.value)
    /\ pc = "thrown" =>
          /\ result # None
          /\ result[1].kind = "Error"
          /\ "candidates" \notin DOMAIN result[1]
    /\ Rejected => pc = "thrown"
    /\ (Resolved /\ Normalized.throws) => pc = "thrown"

C25_Witness ==
    /\ Resolved
    /\ Normalized.throws
    /\ pc = "thrown"
    /\ Len(generateContentCalls) = 1

\* Two calls that were given the same handle, request and backend outcome.
SameInputs(i, j) ==
    /\ calls[i].handleName = calls[j].handleName
    /\ calls[i].request = calls[j].request
    /\ calls[i].backendOutcome = calls[j].backendOutcome
    /\ (calls[i].pc = "awaiting") = (calls[j].pc = "awaiting")

\* C26: under every interleaving, what a call sends and returns is fixed by
\* its own handle, request and backend outcome: two calls with the same
\* inputs are in the same state whatever ran in between, a call sends the
\* content and model options of its own request, and the plugin's options,
\* registry and client are as initialization left them.
C26_CallsIndependent ==
    /\ \A i, j \in 1..MaxCalls : SameInputs(i, j) => calls[i] = calls[j]
    /\ \A i \in 1..MaxCalls :
          calls[i].pc # "idle" =>
              /\ calls[i].generateContentCalls =
                    << GenerateContentArg(
                           FallbackContents(calls[i].request[1],
                               toFirebaseAIRequest(calls[i].request[1]).contents)) >>
              /\ calls[i].modelHandles[1] =
                    ModelConfig(StripPrefix(calls[i].handleName[1]), calls[i].request[1])
    /\ options = PlainOptions
    /\ registry = LiveRegistry(1)
    /\ clients = 1

C26_Witness ==
    /\ calls[1].pc = "returned"
    /\ calls[MaxCalls].pc = "awaiting"
    /\ calls[1].handleName = calls[MaxCalls].handleName
    /\ calls[1].request # calls[MaxCalls].request

\* data:<mime>[;parameter];base64,<payload> with no comma in the payload.
IsBase64DataUri(url) ==
    /\ Len(url) >= 7
    /\ url[1] = "data" /\ url[2] = ":"
    /\ url[Len(url) - 3] = ";" /\ url[Len(url) - 2] = "base64" /\ url[Len(url) - 1] = ","
    /\ \A k \in 1..Len(url) : url[k] = "," => k = Len(url) - 1

IsGsUri(url) == Len(url) >= 1 /\ url[1] = "gs://"

\* The parts the flattening rule speaks of.
IsTranslated(part) ==
    \/ "text" \in DOMAIN part /\ part.text # EmptyString
    \/ "media" \in DOMAIN part /\ (IsBase64DataUri(part.media.url) \/ IsGsUri(part.media.url))
    \/ "toolRequest" \in DOMAIN part
    \/ "toolResponse" \in DOMAIN part

\* The backend part the flattening rule gives for a part.
Flattened(part) ==
    IF "text" \in DOMAIN part THEN [text |-> part.text]
    ELSE IF "media" \in DOMAIN part /\ IsBase64DataUri(part.media.url) THEN
        [inlineData |-> [mimeType |-> <<part.media.url[3]>>,
                         data |-> Some(<<part.media.url[Len(part.media.url)]>>)]]
    ELSE IF "media" \in DOMAIN part THEN
        [fileData |-> [mimeType |-> part.media.contentType, fileUri |-> part.media.url]]
    ELSE IF "toolRequest" \in DOMAIN part THEN
        [functionCall |-> [name |-> part.toolRequest.name, args |-> part.toolRequest.input]]
    ELSE
        [functionResponse |-> [name |-> part.toolResponse.name,
                               response |-> part.toolResponse.output]]

\* C27: when every part of the message is one the flattening rule speaks
\* of, the backend content has exactly one part per part, in the same order:
\* text as text, a base64 data URI as inline data with the MIME type and the
\* payload of the URI, a gs:// URL as file data with the declared contentType
\* and the URL, a tool request as functionCall and a tool response as
\* functionResponse.
C27_PartFlattening ==
    (Invoked /\ \A k \in 1..Len(UserContent) : IsTranslated(UserContent[k])) =>
        BackendContent.items = [k \in 1..Len(UserContent) |-> Flattened(UserContent[k])]

C27_Witness ==
    /\ Invoked
    /\ UserContent = << MediaPart(GsUrl, <<"image/png">>),
                        MediaPart(DataUrlCharset, <<"text/plain">>) >>
    /\ Len(BackendContent.items) = 2

\* The plugin is in test mode and no later resolution has touched the registry.
TestMode == plugin = "test-mode" /\ resolves = 0

\* C28: when initialization fails and the project is 'test-project', nothing
\* is raised, every supported model is registered under its canonical name
\* and a generation call on it throws FAILED_PRECONDITION without creating a
\* model handle or calling the backend; when initialization fails otherwise,
\* the error is raised and nothing is registered.
C28_TestMode ==
    /\ plugin = "test-mode" =>
          (options.projectId = Some("test-project") /\ initError = None)
    /\ TestMode =>
          /\ DOMAIN registry = CanonicalNames
          /\ pc # "idle" =>
                /\ pc = "thrown"
                /\ result[1].status = "FAILED_PRECONDITION"
                /\ modelHandles = << >>
                /\ generateContentCalls = << >>
                /\ backendOutcome = None
    /\ plugin = "failed" =>
          /\ options.projectId # Some("test-project")
          /\ initError # None
          /\ DOMAIN registry = {}

C28_Witness ==
    /\ TestMode
    /\ pc = "thrown"
    /\ handleName = Some(DefaultKey)
    /\ result = Some(TestModeError)

\* A text part with empty text, or a media part whose URL is neither a
\* data: URI nor a gs:// reference.
IsSkipped(part) ==
    \/ "text" \in DOMAIN part /\ part.text = EmptyString
    \/ /\ "media" \in DOMAIN part
       /\ ~StartsWith(part.media.url, <<"data", ":">>)
       /\ ~StartsWith(part.media.url, <<"gs://">>)

\* C29: an empty text part and a media part with, say, an https URL add
\* nothing to the backend content and raise nothing; when the message has no
\* other part, generateContent is still called, with empty content.
C29_SkippedPartsSendNothing ==
    Invoked =>
        /\ Len(generateContentCalls) = 1
        /\ Len(BackendContent.items) =
              Cardinality({ k \in 1..Len(UserContent) : ~IsSkipped(UserContent[k]) })
        /\ (\A k \in 1..Len(UserContent) : IsSkipped(UserContent[k])) =>
              BackendContent = GenerateContentArg(<< >>)
        /\ (pc = "thrown") => Rejected

C29_Witness ==
    /\ pc = "returned"
    /\ UserContent = << TextPart(EmptyString), MediaPart(HttpsUrl, <<"image/png">>) >>
    /\ BackendContent.items = << >>

\* The resolver ran in this step.
ResolverStep == resolves' = resolves + 1

\* The resolver ran for something other than a model of this plugin.
ForeignLookup ==
    ~(lastResolve'[1].action = "model" /\ StartsWith(lastResolve'[1].name, <<Prefix>>))

\* C30: a resolver call for another action, or for a name without the
\* prefix, registers nothing, obtains no client and raises nothing; and a
\* resolver call for one name registers, replaces and removes no handle of
\* another name.  Resolving the name of an inherited property registers a
\* handle under a name other than the one resolved.
C30_ResolverFrame ==
    [][ResolverStep =>
          /\ ForeignLookup =>
                /\ registry' = registry
                /\ clients' = clients
                /\ defineModelCalls' = defineModelCalls
                /\ lastResolve'[1].thrown = None
          /\ \A k \in (DOMAIN registry \cup DOMAIN registry') \ {lastResolve'[1].name} :
                /\ k \in DOMAIN registry
                /\ k \in DOMAIN registry'
                /\ registry'[k] = registry[k]]_vars

=============================================================================
